---------------------------- MODULE Spec2Model ----------------------------
(***************************************************************************)
(* A model of BP/scripts/vein_mine.js: one run of one of the six shape     *)
(* handlers of veinHandler (shapelessVein, treeCapitator, veinMiner,       *)
(* largeTunnel, smallTunnel, lineTunnel) together with the helpers they    *)
(* call (createVeinContext, addLoot, dropVeinLoot, breakBlock,             *)
(* reduceHunger).  A run is an async function: it executes synchronously   *)
(* from one `await system.waitTicks(1)` to the next, and the player may    *)
(* change the selected hotbar slot only while the run is suspended.        *)
(* ServerSpec looks at the script as a whole: the playerBreakBlock         *)
(* subscriber and the shapelessVein runs it starts for two players in one  *)
(* world, interleaved at their awaits.                                     *)
(***************************************************************************)
EXTENDS Integers, Sequences, FiniteSets, TLC

(***************************************************************************)
(* Bounds of the model.                                                    *)
(***************************************************************************)
\* length of the straight row of vein blocks in front of the origin
LineLen == 11
\* length of the lode of stone the two players of the script mine
LodeLen == 5
\* the playerBreakBlock events the script receives
MaxEvents == 2
\* the loaded region spans -Reach..Reach on the y and z axes
Reach == 2
\* largest block budget (dorios:veinLimit) a run is started with
MaxLimit == 12
\* remaining durability of a tool that outlasts a run
Sturdy == 30
\* the aim vectors the axis selections are compared on have components in
\* -AimRange..AimRange
AimRange == 2

(***************************************************************************)
(* Program constants.                                                      *)
(***************************************************************************)
\* Math.min(remaining, 64) in dropVeinLoot
StackCap == 64
\* cont % 10 in every handler
HungerEvery == 10

Min(a, b) == IF a <= b THEN a ELSE b
Abs(a) == IF a >= 0 THEN a ELSE -a

NoItem == [typeId |-> "undefined", hasDur |-> FALSE, dur |-> 0, comp |-> "none"]
Undefined == "undefined"
Origin == <<0, 0, 0>>

(***************************************************************************)
(* Block and item types.  A type id is a string; String.endsWith is        *)
(* computed over the stems the type ids of the model are built from.       *)
(***************************************************************************)
Air == "minecraft:air"
Stems ==
    {"minecraft:", "minecraft:iron", "minecraft:lapis", "minecraft:oak",
     "minecraft:ancient", "minecraft:crimson", "utilitycraft:"}

EndsWith(typeId, suffix) == \E stem \in Stems : typeId = stem \o suffix

\* block.hasTag(tag)
HasTag(typeId, tag) ==
    CASE typeId = "utilitycraft:crusher"       -> tag = "dorios:machine"
      [] typeId = "utilitycraft:furnator"      -> tag \in {"dorios:generator", "dorios:furnace"}
      [] typeId = "utilitycraft:tank"          -> tag = "dorios:fluid"
      [] typeId = "utilitycraft:furnace"       -> tag = "dorios:furnace"
      [] OTHER -> FALSE

\* the blacklist imported from global_variables.js
blacklist == {"minecraft:bedrock"}

\* lootManager.generateLootFromBlock(block, item): the drop lists the loot
\* table of a block type can produce
Drop(id, n) == [typeId |-> id, amount |-> n]
LootOf(typeId) ==
    CASE typeId = "minecraft:stone"          -> {<<Drop("minecraft:cobblestone", 1)>>}
      [] typeId = "minecraft:iron_ore"       -> {<<Drop("minecraft:raw_iron", 1)>>}
      [] typeId = "minecraft:lapis_ore"      -> {<<Drop("minecraft:lapis_lazuli", 4)>>,
                                                 <<Drop("minecraft:lapis_lazuli", 36)>>}
      [] typeId = "minecraft:ancient_debris" -> {<<Drop("minecraft:ancient_debris", 1)>>}
      [] typeId = "minecraft:oak_log"        -> {<<Drop("minecraft:oak_log", 1)>>}
      [] typeId = "minecraft:oak_leaves"     -> {<< >>, <<Drop("minecraft:stick", 2),
                                                          Drop("minecraft:oak_sapling", 1)>>}
      [] OTHER -> {<< >>}

ItemTypes ==
    {"minecraft:cobblestone", "minecraft:raw_iron", "minecraft:lapis_lazuli",
     "minecraft:ancient_debris", "minecraft:oak_log", "minecraft:stick",
     "minecraft:oak_sapling"}

(***************************************************************************)
(* The world a run works on: the block type at each position before the   *)
(* run, as a pattern of blocks of the vein type bt around the origin.      *)
(***************************************************************************)
Worlds == {"solid", "line", "diag", "gap", "mixed", "unloaded"}

DiagCells == {<<1, 1, 0>>, <<2, 0, 1>>, <<3, 1, 1>>, <<4, 1, 0>>, <<6, 0, 0>>}
GapCells == {<<1, 0, 0>>, <<1, 1, 0>>, <<3, 0, 0>>, <<3, 0, 1>>}

InBox(p) ==
    /\ p[1] \in -1..(LineLen + 1)
    /\ p[2] \in -Reach..Reach
    /\ p[3] \in -Reach..Reach

\* positions dim.getBlock cannot resolve (unloaded chunk, outside the world)
Unloaded(w, p) ==
    \/ ~InBox(p)
    \/ w = "unloaded" /\ p \in {Origin, <<2, 0, 0>>, <<1, 1, 0>>}

MixedAt(p) ==
    CASE p = <<0, 0, 0>> -> "minecraft:lapis_ore"
      [] p = <<1, 0, 0>> -> "minecraft:lapis_ore"
      [] p = <<2, 0, 0>> -> "minecraft:ancient_debris"
      [] p = <<3, 0, 0>> -> "minecraft:iron_ore"
      [] p = <<0, 1, 0>> -> "minecraft:stone"
      [] p = <<1, 1, 0>> -> "minecraft:oak_log"
      [] p = <<2, 1, 0>> -> "minecraft:oak_leaves"
      [] p = <<1, 0, 1>> -> "minecraft:bedrock"
      [] p = <<4, 0, 0>> -> "minecraft:lapis_ore"
      [] OTHER -> Air

InitialType(w, bt, p) ==
    CASE w = "mixed" -> MixedAt(p)
      [] p = Origin -> Air
      [] w \in {"solid", "unloaded"} -> bt
      [] w = "line" -> IF p[2] = 0 /\ p[3] = 0 /\ p[1] \in 1..LineLen THEN bt ELSE Air
      [] w = "diag" -> IF p \in DiagCells THEN bt ELSE Air
      [] w = "gap" -> IF p \in GapCells THEN bt ELSE Air

(***************************************************************************)
(* The 26 neighbour offsets, in the order of the source.                   *)
(***************************************************************************)
dirs ==
    << <<1, 0, 0>>, <<-1, 0, 0>>, <<0, 1, 0>>, <<0, -1, 0>>, <<0, 0, 1>>, <<0, 0, -1>>,
       <<1, 1, 0>>, <<1, -1, 0>>, <<-1, 1, 0>>, <<-1, -1, 0>>,
       <<1, 0, 1>>, <<1, 0, -1>>, <<-1, 0, 1>>, <<-1, 0, -1>>,
       <<0, 1, 1>>, <<0, 1, -1>>, <<0, -1, 1>>, <<0, -1, -1>>,
       <<1, 1, 1>>, <<1, 1, -1>>, <<1, -1, 1>>, <<1, -1, -1>>,
       <<-1, 1, 1>>, <<-1, 1, -1>>, <<-1, -1, 1>>, <<-1, -1, -1>> >>

Plus(p, d) == <<p[1] + d[1], p[2] + d[2], p[3] + d[3]>>

NeighboursFaces(pos) == [i \in 1..6 |-> Plus(pos, dirs[i])]

\* for (const d of dirs) toCheck.push({...})
Neighbours(pos) == [i \in 1..Len(dirs) |-> Plus(pos, dirs[i])]

(***************************************************************************)
(* The per-run loot context.  ctx.loot is a Map: its entries, in insertion *)
(* order.                                                                  *)
(***************************************************************************)
\* addLoot(ctx, itemStack)
AddLoot(loot, itemStack) ==
    LET id == itemStack.typeId
        amount == itemStack.amount
    IN  IF \E i \in 1..Len(loot) : loot[i].typeId = id
        THEN [i \in 1..Len(loot) |->
                IF loot[i].typeId = id
                THEN Drop(id, loot[i].amount + amount)
                ELSE loot[i]]
        ELSE Append(loot, Drop(id, 0 + amount))

\* for (const drop of drops) addLoot(veinCtx, drop)
RECURSIVE AddAll(_, _)
AddAll(loot, drops) ==
    IF drops = << >> THEN loot ELSE AddAll(AddLoot(loot, Head(drops)), Tail(drops))

StackSizeUncapped(remaining) == remaining

\* const stackSize = Math.min(remaining, 64)
StackSize(remaining) == Min(remaining, StackCap)

\* the while (remaining > 0) loop of dropVeinLoot for one entry
RECURSIVE SplitStacks(_, _)
SplitStacks(typeId, remaining) ==
    IF remaining > 0
    THEN <<Drop(typeId, StackSize(remaining))>>
            \o SplitStacks(typeId, remaining - StackSize(remaining))
    ELSE << >>

\* the block the handler is called with: the place of the block the player
\* broke
OriginBlock == [dimension |-> "minecraft:overworld", location |-> Origin]

\* createVeinContext(block)
createVeinContext(block) ==
    [loot |-> << >>, dimension |-> block.dimension, dropPos |-> block.location]

\* dropVeinLoot(ctx): the stacks spawned, in order
RECURSIVE DropVeinLoot(_)
DropVeinLoot(loot) ==
    IF loot = << >>
    THEN << >>
    ELSE SplitStacks(Head(loot).typeId, Head(loot).amount) \o DropVeinLoot(Tail(loot))

(***************************************************************************)
(* reduceHunger(player) with minusHunger = minusSaturation = 1: whether    *)
(* the stamina sufficed, and the two reserves afterwards.                  *)
(***************************************************************************)
ReduceHungerUnchecked(flag, currentHunger, currentSaturation) ==
    IF flag
    THEN [ok |-> TRUE, hunger |-> currentHunger, saturation |-> currentSaturation]
    ELSE [ok |-> TRUE, hunger |-> currentHunger, saturation |-> currentSaturation - 1]

ReduceHungerNoBypass(flag, currentHunger, currentSaturation) ==
    IF currentSaturation - 1 >= 0
    THEN [ok |-> TRUE, hunger |-> currentHunger, saturation |-> currentSaturation - 1]
    ELSE IF currentHunger - 1 >= 0
    THEN [ok |-> TRUE, hunger |-> currentHunger - 1, saturation |-> currentSaturation]
    ELSE [ok |-> FALSE, hunger |-> currentHunger, saturation |-> currentSaturation]

ReduceHunger(flag, currentHunger, currentSaturation) ==
    IF flag
    THEN [ok |-> TRUE, hunger |-> currentHunger, saturation |-> currentSaturation]
    ELSE IF currentSaturation - 1 >= 0
    THEN [ok |-> TRUE, hunger |-> currentHunger, saturation |-> currentSaturation - 1]
    ELSE IF currentHunger - 1 >= 0
    THEN [ok |-> TRUE, hunger |-> currentHunger - 1, saturation |-> currentSaturation]
    ELSE [ok |-> FALSE, hunger |-> currentHunger, saturation |-> currentSaturation]

HungerDueFromZero(n) == n % HungerEvery = 0

\* cont % 10 == 0 && cont != 0
HungerDue(n) == n % HungerEvery = 0 /\ n # 0

(***************************************************************************)
(* Tunnel geometry.                                                        *)
(***************************************************************************)
AxisHorizontalOnly(v) ==
    IF Abs(v[1]) >= Abs(v[3])
    THEN [axis |-> "x", stepSign |-> IF v[1] >= 0 THEN 1 ELSE -1]
    ELSE [axis |-> "z", stepSign |-> IF v[3] >= 0 THEN 1 ELSE -1]

\* axis and stepSign of largeTunnel, from player.getViewDirection()
LargeAxis(v) ==
    IF Abs(v[1]) >= Abs(v[2]) /\ Abs(v[1]) >= Abs(v[3])
    THEN [axis |-> "x", stepSign |-> IF v[1] >= 0 THEN 1 ELSE -1]
    ELSE IF Abs(v[3]) >= Abs(v[2])
    THEN [axis |-> "z", stepSign |-> IF v[3] >= 0 THEN 1 ELSE -1]
    ELSE [axis |-> "y", stepSign |-> IF v[2] >= 0 THEN 1 ELSE -1]

\* axis and stepSign of smallTunnel
SmallAxis(v) ==
    IF Abs(v[1]) >= Abs(v[2]) /\ Abs(v[1]) >= Abs(v[3])
    THEN [axis |-> "x", stepSign |-> IF v[1] >= 0 THEN 1 ELSE -1]
    ELSE IF Abs(v[3]) >= Abs(v[2])
    THEN [axis |-> "z", stepSign |-> IF v[3] >= 0 THEN 1 ELSE -1]
    ELSE [axis |-> "y", stepSign |-> IF v[2] >= 0 THEN 1 ELSE -1]

\* axis and stepSign of lineTunnel
LineAxis(v) ==
    IF Abs(v[1]) >= Abs(v[2]) /\ Abs(v[1]) >= Abs(v[3])
    THEN [axis |-> "x", stepSign |-> IF v[1] >= 0 THEN 1 ELSE -1]
    ELSE IF Abs(v[3]) >= Abs(v[2])
    THEN [axis |-> "z", stepSign |-> IF v[3] >= 0 THEN 1 ELSE -1]
    ELSE [axis |-> "y", stepSign |-> IF v[2] >= 0 THEN 1 ELSE -1]

\* origin moved n steps along the axis
Forward(ax, sign, n) ==
    CASE ax = "x" -> <<n * sign, 0, 0>>
      [] ax = "y" -> <<0, n * sign, 0>>
      [] ax = "z" -> <<0, 0, n * sign>>

orderOut ==
    << <<0, 0>>, <<1, 0>>, <<1, 1>>, <<0, 1>>, <<-1, 1>>,
       <<-1, 0>>, <<-1, -1>>, <<0, -1>>, <<1, -1>> >>

Reverse(s) == [i \in 1..Len(s) |-> s[Len(s) + 1 - i]]

spiralOffsetsOutward(out) == orderOut

\* spiralOffsets(outward)
spiralOffsets(out) == IF out THEN orderOut ELSE Reverse(orderOut)

\* the cell of a slice at offset [dx, dy] of the cross-section
SliceCell(ax, sliceCenter, off) ==
    CASE ax = "x" -> <<sliceCenter[1], sliceCenter[2] + off[1], sliceCenter[3] + off[2]>>
      [] ax = "y" -> <<sliceCenter[1] + off[1], sliceCenter[2], sliceCenter[3] + off[2]>>
      [] ax = "z" -> <<sliceCenter[1] + off[1], sliceCenter[2] + off[2], sliceCenter[3]>>

\* the 1x2 offsets of smallTunnel
offsets == << <<0, 0, 0>>, <<0, 1, 0>> >>

\* const maxLength = Math.floor(maxVein / 4) of largeTunnel
LargeMaxLength(limit) == limit \div 4
\* const maxBlocks = maxVein * 2 of largeTunnel
LargeMaxBlocks(limit) == limit * 2
\* const maxLength = Math.floor(maxVein / 2) of smallTunnel
SmallMaxLength(limit) == limit \div 2
\* const maxLength = maxVein of lineTunnel
LineMaxLength(limit) == limit

\* the eligibility predicates of the three flood-fills
isTreeBlock(typeId) ==
    \E p \in {"_log", "_leaves", "_stem", "_wart_block"} : EndsWith(typeId, p)

isOreBlock(typeId) ==
    EndsWith(typeId, "_ore") \/ typeId = "minecraft:ancient_debris"

FloodShapes == {"shapelessVein", "treeCapitator", "veinMiner"}
TunnelShapes == {"largeTunnel", "smallTunnel", "lineTunnel"}
Shapes == FloodShapes \cup TunnelShapes

(***************************************************************************)
(* Items.  dur is the number of damage() calls the tool still survives:    *)
(* the damage() that takes it to 0 destroys the tool.                      *)
(***************************************************************************)
Pick(n) == [typeId |-> "minecraft:iron_pickaxe", hasDur |-> TRUE, dur |-> n, comp |-> "none"]
Stick == [typeId |-> "minecraft:stick", hasDur |-> FALSE, dur |-> 0, comp |-> "none"]
Hammer == [typeId |-> "utilitycraft:iron_hammer", hasDur |-> TRUE, dur |-> Sturdy,
           comp |-> "utilitycraft:hammer"]
Looter == [typeId |-> "utilitycraft:loot_pickaxe", hasDur |-> TRUE, dur |-> Sturdy,
           comp |-> "utilitycraft:block_loot"]
Torch == [typeId |-> "minecraft:torch", hasDur |-> FALSE, dur |-> 0, comp |-> "none"]

(***************************************************************************)
(* The calls of a handler the model starts from: the arguments the trigger *)
(* passes and the state of the player and the world at the call.           *)
(***************************************************************************)
Ahead == <<10, 0, 0>>
Views == {Ahead, <<-7, 2, 7>>, <<1, 9, -4>>, <<0, -7, 7>>, <<-3, -8, 2>>, <<2, -6, -6>>}
Limits == {1, 2, 5, MaxLimit}

Call(sh, w, bt, limit, v, it, mode, hu, sa, flag) ==
    [shape |-> sh, world |-> w, brokenBlock |-> bt, maxVein |-> limit, view |-> v,
     item |-> it, gameMode |-> mode, hunger |-> hu, saturation |-> sa,
     noConsumeSaturation |-> flag]

VeinTypeOf(w) == IF w = "mixed" THEN "minecraft:lapis_ore" ELSE "minecraft:stone"

\* every shape over every world and budget, with a tool that lasts
TraversalCalls ==
    {Call(sh, w, VeinTypeOf(w), limit, v, Pick(Sturdy), "survival", 3, 2, FALSE) :
        sh \in FloodShapes, w \in Worlds, limit \in Limits, v \in {Ahead}}
    \cup
    {Call(sh, w, VeinTypeOf(w), limit, v, Pick(Sturdy), "survival", 3, 2, FALSE) :
        sh \in TunnelShapes, w \in Worlds, limit \in Limits, v \in Views}

\* every kind of tool in and out of survival mode
ToolCalls ==
    {Call(sh, "solid", "minecraft:stone", MaxLimit, Ahead, it, mode, 3, 2, FALSE) :
        sh \in Shapes, it \in {NoItem, Pick(1), Pick(3), Stick, Hammer, Looter},
        mode \in {"survival", "adventure"}}

\* low stamina reserves, with and without the world-level opt-out
StaminaCalls ==
    {Call(sh, w, "minecraft:stone", MaxLimit, Ahead, Pick(Sturdy), "survival",
          hs[1], hs[2], flag) :
        sh \in Shapes, w \in {"solid", "line"},
        hs \in {<<0, 0>>, <<0, 1>>, <<1, 0>>}, flag \in BOOLEAN}

\* veins of blocks that carry a destruction tag
TaggedCalls ==
    {Call(sh, "diag", bt, 5, Ahead, it, "survival", 3, 2, FALSE) :
        sh \in {"shapelessVein", "largeTunnel", "lineTunnel"},
        bt \in {"utilitycraft:crusher", "utilitycraft:furnator", "utilitycraft:tank",
                "utilitycraft:furnace"},
        it \in {Pick(Sturdy), Hammer}}

\* a vertical smallTunnel through blocks that carry a destruction tag
VerticalCalls ==
    {Call("smallTunnel", "solid", "utilitycraft:crusher", 5, <<1, 9, -4>>, Pick(Sturdy),
          "survival", 3, 2, FALSE)}

\* a tool that the eleventh step wears out, with no stamina left for it
WornOutCalls ==
    {Call(sh, "solid", "minecraft:stone", MaxLimit, Ahead, Pick(HungerEvery + 1),
          "survival", 0, 0, FALSE) :
        sh \in {"shapelessVein", "lineTunnel"}}

\* a tool that the second step wears out, with a second pickaxe in the
\* other hotbar slot
SpareCalls ==
    {Call(sh, "solid", "minecraft:stone", 5, Ahead, Pick(2), "survival", 3, 2, FALSE) :
        sh \in {"shapelessVein", "lineTunnel"}}

Calls ==
    TraversalCalls \cup ToolCalls \cup StaminaCalls \cup TaggedCalls \cup VerticalCalls
        \cup WornOutCalls \cup SpareCalls

\* the item in the hotbar slot the player can select during a wait
Spare(c) == IF c \in SpareCalls THEN Pick(Sturdy) ELSE Torch

(***************************************************************************)
(* The world and the players of the script as a whole: two players mine    *)
(* one lode of stone with a blacklisted block beside it.  A dynamic        *)
(* property is << >> while it is undefined and <<value>> when it is set.   *)
(***************************************************************************)
Players == {"steve", "alex"}

Lode == {<<i, 0, 0>> : i \in 0..(LodeLen - 1)}
Slab == <<1, 1, 0>>

\* the blocks within the reach of each player: steve stands at the start
\* of the lode and mines every other block, alex at its end, beside the slab
Within(p) ==
    IF p = "steve" THEN {<<0, 0, 0>>, <<2, 0, 0>>} ELSE {<<LodeLen - 1, 0, 0>>, Slab}

\* the blocks of the shared world before any event
LodeAt(p) == IF p = Slab THEN "minecraft:bedrock" ELSE "minecraft:stone"

\* the default allow-list imported from global_variables.js
list == {"minecraft:stone", "minecraft:iron_ore", "minecraft:lapis_ore"}

Unset == << >>
Set(value) == <<value>>

\* a player who has never used the script, and one with settings of their own
Newcomer ==
    [gameMode |-> "survival", mainhand |-> Pick(Sturdy), hunger |-> 3, saturation |-> 2,
     nausea |-> 0, sounds |-> 0, isAdding |-> FALSE,
     veinEnabled |-> Unset, veinShape |-> Unset, veinLimit |-> Unset, veinList |-> Unset]
Settled ==
    [gameMode |-> "survival", mainhand |-> Pick(Sturdy), hunger |-> 3, saturation |-> 2,
     nausea |-> 0, sounds |-> 0, isAdding |-> FALSE,
     veinEnabled |-> Set(TRUE), veinShape |-> Set("shapelessVein"), veinLimit |-> Set(3),
     veinList |-> Set({"minecraft:stone", "minecraft:bedrock"})]

(***************************************************************************)
(* State.                                                                  *)
(***************************************************************************)
VARIABLES
    \* the arguments of the handler and the world-level state it reads
    shape, world, brokenBlock, maxVein, view, gameMode, noConsumeSaturation,
    \* the player: the tool the handler was given, the main-hand slot, the
    \* other hotbar slot, the stamina reserves, effects and sounds received
    item, mainhand, stash, hunger, saturation, nausea, sounds,
    \* the world: positions filled with air, script events dispatched
    removed, signals,
    \* ctx.loot, ctx.dimension, ctx.dropPos
    loot, dimension, dropPos,
    \* the drops breakBlock spawned at the place of a block, with the place
    strays,
    \* the dimension and location of every spawnItem call of dropVeinLoot
    dropSites,
    \* the locals of the running handler
    pc, visited, toCheck, cont, cur, curBlock, axis, stepSign, d, idx,
    outward, foundInSlice, innerBreak, broken, sliceStart,
    \* observers of the run
    breaks, brokenSet, added, spawned, emits, outcome, mismatchSeen,
    inserted, resolved, reprocessed, eligibleSet, examined, brokenSlices, damages,
    hungerCalls, deducted,
    \* the ticks the run has waited, and the tick of its last break
    tick, breakTick,
    \* the cells the slice loop of largeTunnel took, as <<slice, offset>>
    trail,
    \* the script as a whole: the blocks of the world the players share, the
    \* players, the runs the subscriber has started (each suspended run with
    \* the ticks it has still to wait), the playerBreakBlock events so far
    blocks, players, runs, events,
    \* observers of the script: the spawnItem calls, the blocks filled with
    \* air and the drop lists generated, each with the run it belongs to
    spawns, removals, yields

inputs == <<shape, world, brokenBlock, maxVein, view, gameMode, noConsumeSaturation,
            dimension, dropPos>>
tool == <<item, mainhand, stash, sounds, damages>>
stamina == <<hunger, saturation, nausea, hungerCalls, deducted>>
effects == <<removed, signals, loot, strays, breaks, brokenSet, added>>
flood == <<visited, toCheck, inserted, resolved, reprocessed, eligibleSet>>
tunnel == <<axis, stepSign, d, idx, outward, foundInSlice, innerBreak, broken,
            sliceStart, examined, brokenSlices>>
target == <<cur, curBlock>>
ending == <<emits, spawned, dropSites, outcome>>
clock == <<tick, breakTick>>

\* one run of a handler
handler == <<inputs, tool, stamina, effects, flood, tunnel, target, ending, clock,
             pc, cont, mismatchSeen, trail>>
\* the script with all its runs
server == <<blocks, players, runs, events, spawns, removals, yields>>

vars == <<handler, server>>

\* the script after its load: no event yet, no run
Loaded ==
    /\ blocks = [p \in Lode \cup {Slab} |-> LodeAt(p)]
    /\ players = [p \in Players |-> IF p = "steve" THEN Newcomer ELSE Settled]
    /\ runs = << >> /\ events = 0
    /\ spawns = << >> /\ removals = << >> /\ yields = << >>

\* the state at the call c of a handler
Called(c) ==
        /\ shape = c.shape /\ world = c.world /\ brokenBlock = c.brokenBlock
        /\ maxVein = c.maxVein /\ view = c.view /\ gameMode = c.gameMode
        /\ noConsumeSaturation = c.noConsumeSaturation
        /\ item = c.item /\ mainhand = c.item /\ stash = Spare(c)
        /\ hunger = c.hunger /\ saturation = c.saturation
        /\ nausea = 0 /\ sounds = 0 /\ damages = 0
        /\ removed = {} /\ signals = << >> /\ strays = << >>
        /\ loot = createVeinContext(OriginBlock).loot
        /\ dimension = createVeinContext(OriginBlock).dimension
        /\ dropPos = createVeinContext(OriginBlock).dropPos
        /\ pc = "start" /\ visited = {} /\ toCheck = << >> /\ cont = 0
        /\ cur = Origin /\ curBlock = Undefined
        /\ axis = "x" /\ stepSign = 1 /\ d = 0 /\ idx = 1
        /\ outward = TRUE /\ foundInSlice = FALSE /\ innerBreak = "none"
        /\ broken = 0 /\ sliceStart = 0
        /\ breaks = 0 /\ brokenSet = {} /\ added = [t \in ItemTypes |-> 0]
        /\ spawned = << >> /\ dropSites = {} /\ emits = 0 /\ outcome = "none"
        /\ mismatchSeen = FALSE /\ inserted = 0 /\ resolved = {}
        /\ reprocessed = FALSE /\ eligibleSet = {} /\ examined = {} /\ brokenSlices = {}
        /\ hungerCalls = 0 /\ deducted = 0
        /\ tick = 0 /\ breakTick = -1 /\ trail = << >>

Init == (\E c \in Calls : Called(c)) /\ Loaded

(***************************************************************************)
(* The world as the running handler sees it.                               *)
(***************************************************************************)
TypeAt(p) == IF p \in removed THEN Air ELSE InitialType(world, brokenBlock, p)

ResolveAnywhere(p) == TypeAt(p)

\* try { targetBlock = dim.getBlock(pos) } catch { } of the flood-fills
Resolve(p) == IF Unloaded(world, p) THEN Undefined ELSE TypeAt(p)

\* getBlock(x, y, z) of the tunnels: the block, or a falsy value
getBlock(p) ==
    LET b == Resolve(p)
    IN  IF b = Undefined THEN Undefined
        ELSE IF b = Air THEN Undefined
        ELSE IF b \in blacklist THEN Undefined
        ELSE IF b # brokenBlock THEN Undefined
        ELSE b

EligibleAlways(sh, size, targetBlock) == TRUE

\* the eligibility test of the flood-fill of each shape
Eligible(sh, size, targetBlock) ==
    \/ size = 1
    \/ /\ targetBlock # Undefined
       /\ CASE sh = "shapelessVein" -> targetBlock = brokenBlock
            [] sh = "treeCapitator" -> isTreeBlock(targetBlock)
            [] sh = "veinMiner" -> isOreBlock(targetBlock)

ToolMismatchNever == FALSE

\* if (item) { ... currentMainhand?.typeId != item.typeId ... }
ToolMismatch == item # NoItem /\ mainhand.typeId # item.typeId

(***************************************************************************)
(* The end of a run: the finally block of every handler.                   *)
(***************************************************************************)
\* ctx.dimension.spawnItem(..., ctx.dropPos): where the stacks are spawned
SpawnSites(lootNow) ==
    {<<dimension, dropPos>> : i \in 1..Len(DropVeinLoot(lootNow))}

FinallySkippedOnFault(lootNow, reason) ==
    /\ pc' = "done"
    /\ outcome' = reason
    /\ emits' = IF reason = "fault" THEN emits ELSE emits + 1
    /\ spawned' = IF reason = "fault" THEN spawned ELSE spawned \o DropVeinLoot(lootNow)
    /\ dropSites' = IF reason = "fault" THEN dropSites
                    ELSE dropSites \cup SpawnSites(lootNow)

\* finally { dropVeinLoot(ctx) }, entered for the given reason
Finally(lootNow, reason) ==
    /\ pc' = "done"
    /\ outcome' = reason
    /\ emits' = emits + 1
    /\ spawned' = spawned \o DropVeinLoot(lootNow)
    /\ dropSites' = dropSites \cup SpawnSites(lootNow)

\* the handler goes on, at the given place
Goto(place) == pc' = place /\ UNCHANGED ending

(***************************************************************************)
(* The call of a handler up to its loop: createVeinContext, the locals,    *)
(* and for the tunnels the axis and (largeTunnel) the leading-slice probe. *)
(***************************************************************************)
HasSolidAlways(ax) == TRUE

\* the probe of largeTunnel: does the slice through the origin hold a block
HasSolid(ax) ==
    \E i \in 1..Len(orderOut) :
        getBlock(SliceCell(ax, Origin, spiralOffsets(TRUE)[i])) # Undefined

Start ==
    /\ pc = "start"
    /\ UNCHANGED <<trail, server>>
    /\ IF shape \in FloodShapes
       THEN /\ toCheck' = <<Origin>>
            /\ inserted' = 1
            /\ UNCHANGED <<visited, resolved, reprocessed, eligibleSet>>
            /\ UNCHANGED tunnel
       ELSE LET a == CASE shape = "largeTunnel" -> LargeAxis(view)
                       [] shape = "smallTunnel" -> SmallAxis(view)
                       [] shape = "lineTunnel" -> LineAxis(view)
                start == IF shape = "largeTunnel" /\ ~HasSolid(a.axis) THEN 1 ELSE 0
            IN  /\ axis' = a.axis
                /\ stepSign' = a.stepSign
                /\ sliceStart' = start
                /\ d' = start
                /\ idx' = 1
                /\ outward' = TRUE
                /\ foundInSlice' = FALSE
                /\ innerBreak' = "none"
                /\ broken' = 0
                /\ UNCHANGED <<examined, brokenSlices>>
                /\ UNCHANGED flood
    /\ cont' = 0
    /\ Goto("loop")
    /\ UNCHANGED <<inputs, tool, stamina, effects, target, clock, mismatchSeen>>

(***************************************************************************)
(* One pass of the while loop of a flood-fill, from its condition to the   *)
(* eligibility test.                                                       *)
(***************************************************************************)
NotShifted(queue) == queue

\* what toCheck.shift() leaves of the queue
Shifted(queue) == Tail(queue)

NeverVisited(key) == FALSE

\* visited.has(key)
AlreadyVisited(key) == key \in visited

FloodCheck ==
    /\ pc = "loop"
    /\ UNCHANGED <<trail, server>>
    /\ shape \in FloodShapes
    /\ IF ~(Len(toCheck) > 0 /\ cont < maxVein)
       THEN /\ Finally(loot, IF Len(toCheck) > 0 THEN "budget" ELSE "exhausted")
            /\ UNCHANGED <<flood, target, mismatchSeen>>
       ELSE IF ToolMismatch
       THEN /\ Finally(loot, "tool")
            /\ mismatchSeen' = TRUE
            /\ UNCHANGED <<flood, target>>
       ELSE LET pos == Head(toCheck)
            IN  IF AlreadyVisited(pos)
                THEN /\ toCheck' = Shifted(toCheck)
                     /\ Goto("loop")
                     /\ UNCHANGED <<visited, inserted, resolved, reprocessed,
                                    eligibleSet, target, mismatchSeen>>
                ELSE LET seen == visited \cup {pos}
                         targetBlock == Resolve(pos)
                     IN  /\ toCheck' = Shifted(toCheck)
                         /\ visited' = seen
                         /\ resolved' = resolved \cup {pos}
                         /\ reprocessed' = (reprocessed \/ pos \in resolved)
                         /\ UNCHANGED <<inserted, mismatchSeen>>
                         /\ IF Eligible(shape, Cardinality(seen), targetBlock)
                            THEN /\ cur' = pos
                                 /\ curBlock' = targetBlock
                                 /\ eligibleSet' = eligibleSet \cup {pos}
                                 /\ Goto("govern")
                            ELSE /\ UNCHANGED <<target, eligibleSet>>
                                 /\ Goto("loop")
    /\ UNCHANGED <<inputs, tool, stamina, effects, tunnel, clock, cont>>

(***************************************************************************)
(* One pass of the loops of largeTunnel, up to getBlock.                   *)
(***************************************************************************)
LargeCheck ==
    /\ pc = "loop"
    /\ UNCHANGED server
    /\ shape = "largeTunnel"
    /\ IF ~(d <= LargeMaxLength(maxVein))
       THEN /\ Finally(loot, "exhausted")
            /\ UNCHANGED <<tunnel, target, mismatchSeen, resolved, reprocessed, trail>>
       ELSE IF idx > Len(orderOut) \/ innerBreak # "none"
       THEN \* the inner loop is over: if (!foundInSlice) break; outward = !outward
            IF ~foundInSlice
            THEN /\ Finally(loot, IF innerBreak # "none" THEN innerBreak ELSE "exhausted")
                 /\ UNCHANGED <<tunnel, target, mismatchSeen, resolved, reprocessed, trail>>
            ELSE /\ outward' = ~outward
                 /\ d' = d + 1
                 /\ idx' = 1
                 /\ foundInSlice' = FALSE
                 /\ innerBreak' = "none"
                 /\ Goto("loop")
                 /\ UNCHANGED <<axis, stepSign, broken, sliceStart, examined,
                                brokenSlices, target, mismatchSeen,
                                resolved, reprocessed, trail>>
       ELSE IF ToolMismatch
       THEN /\ innerBreak' = "tool"
            /\ mismatchSeen' = TRUE
            /\ Goto("loop")
            /\ UNCHANGED <<axis, stepSign, d, idx, outward, foundInSlice, broken,
                           sliceStart, examined, brokenSlices, target,
                           resolved, reprocessed, trail>>
       ELSE LET cell == SliceCell(axis, Forward(axis, stepSign, d),
                                  spiralOffsets(outward)[idx])
                blk == getBlock(cell)
            IN  /\ examined' = examined \cup {d}
                /\ resolved' = resolved \cup {cell}
                /\ trail' = Append(trail, <<d, spiralOffsets(outward)[idx]>>)
                /\ reprocessed' = (reprocessed \/ cell \in resolved)
                /\ UNCHANGED <<axis, stepSign, d, outward, foundInSlice, innerBreak,
                               broken, sliceStart, brokenSlices, mismatchSeen>>
                /\ IF blk = Undefined
                   THEN /\ idx' = idx + 1
                        /\ Goto("loop")
                        /\ UNCHANGED target
                   ELSE /\ cur' = cell
                        /\ curBlock' = blk
                        /\ Goto("govern")
                        /\ UNCHANGED idx
    /\ UNCHANGED <<inputs, tool, stamina, effects, clock, cont>>
    /\ UNCHANGED <<visited, toCheck, inserted, eligibleSet>>

(***************************************************************************)
(* One pass of the loops of smallTunnel, up to getBlock.                   *)
(***************************************************************************)
SmallCheck ==
    /\ pc = "loop"
    /\ UNCHANGED <<trail, server>>
    /\ shape = "smallTunnel"
    /\ IF ~(d < SmallMaxLength(maxVein))
       THEN /\ Finally(loot, "exhausted")
            /\ UNCHANGED <<tunnel, target, mismatchSeen, resolved, reprocessed>>
       ELSE IF idx > Len(offsets)
       THEN /\ d' = d + 1
            /\ idx' = 1
            /\ Goto("loop")
            /\ UNCHANGED <<axis, stepSign, outward, foundInSlice, innerBreak, broken,
                           sliceStart, examined, brokenSlices, target, mismatchSeen,
                                resolved, reprocessed>>
       ELSE IF ToolMismatch
       THEN /\ Finally(loot, "tool")
            /\ mismatchSeen' = TRUE
            /\ UNCHANGED <<tunnel, target, resolved, reprocessed>>
       ELSE LET cell == Plus(Forward(axis, stepSign, d), offsets[idx])
                blk == getBlock(cell)
            IN  /\ examined' = examined \cup {d}
                /\ resolved' = resolved \cup {cell}
                /\ reprocessed' = (reprocessed \/ cell \in resolved)
                /\ UNCHANGED <<axis, stepSign, d, outward, foundInSlice, innerBreak,
                               broken, sliceStart, brokenSlices, mismatchSeen>>
                /\ IF blk = Undefined
                   THEN /\ idx' = idx + 1
                        /\ Goto("loop")
                        /\ UNCHANGED target
                   ELSE /\ cur' = cell
                        /\ curBlock' = blk
                        /\ Goto("govern")
                        /\ UNCHANGED idx
    /\ UNCHANGED <<inputs, tool, stamina, effects, clock, cont>>
    /\ UNCHANGED <<visited, toCheck, inserted, eligibleSet>>

(***************************************************************************)
(* One pass of the loop of lineTunnel, up to getBlock.                     *)
(***************************************************************************)
LineCheck ==
    /\ pc = "loop"
    /\ UNCHANGED <<trail, server>>
    /\ shape = "lineTunnel"
    /\ IF ~(d < LineMaxLength(maxVein))
       THEN /\ Finally(loot, "exhausted")
            /\ UNCHANGED <<tunnel, target, mismatchSeen, resolved, reprocessed>>
       ELSE IF ToolMismatch
       THEN /\ Finally(loot, "tool")
            /\ mismatchSeen' = TRUE
            /\ UNCHANGED <<tunnel, target, resolved, reprocessed>>
       ELSE LET pos == Forward(axis, stepSign, d)
                blk == getBlock(pos)
            IN  /\ examined' = examined \cup {d}
                /\ resolved' = resolved \cup {pos}
                /\ reprocessed' = (reprocessed \/ pos \in resolved)
                /\ UNCHANGED <<axis, stepSign, idx, outward, foundInSlice, innerBreak,
                               broken, sliceStart, brokenSlices, mismatchSeen>>
                /\ IF blk = Undefined
                   THEN /\ d' = d + 1
                        /\ Goto("loop")
                        /\ UNCHANGED target
                   ELSE /\ cur' = pos
                        /\ curBlock' = blk
                        /\ Goto("govern")
                        /\ UNCHANGED d
    /\ UNCHANGED <<inputs, tool, stamina, effects, clock, cont>>
    /\ UNCHANGED <<visited, toCheck, inserted, eligibleSet>>

(***************************************************************************)
(* The resource step of an eligible candidate: tool wear, then the stamina *)
(* check.  It is the same code in the six handlers, up to how they leave   *)
(* the loop when the stamina does not suffice.                             *)
(***************************************************************************)
LastsNever(it) == FALSE

\* item.durability.damage(): one unit of damage; truthy while the tool lasts
Damage(it) == [it EXCEPT !.dur = @ - 1]
Lasts(it) == it.dur > 0

WearsInAnyMode == item # NoItem /\ item.hasDur

\* player.getGameMode().toLowerCase() == 'survival' && item?.durability.isValidComponent()
Wears == gameMode = "survival" /\ item # NoItem /\ item.hasDur

WrittenBackAlways(worn) == worn

\* the main hand after the durability block: setEquipment('Mainhand', item)
\* or setEquipment('Mainhand',)
WrittenBack(worn) == IF Lasts(worn) THEN worn ELSE NoItem

Govern ==
    /\ pc = "govern"
    /\ UNCHANGED <<trail, server>>
    /\ LET worn == IF Wears THEN Damage(item) ELSE item
           due == HungerDue(cont)
           r == ReduceHunger(noConsumeSaturation, hunger, saturation)
       IN  /\ item' = worn
           /\ damages' = IF Wears THEN damages + 1 ELSE damages
           /\ mainhand' = IF Wears THEN WrittenBack(worn) ELSE mainhand
           /\ sounds' = IF Wears /\ ~Lasts(worn) THEN sounds + 1 ELSE sounds
           /\ UNCHANGED stash
           /\ IF due
              THEN /\ hunger' = r.hunger
                   /\ saturation' = r.saturation
                   /\ nausea' = IF r.ok THEN nausea ELSE nausea + 1
                   /\ hungerCalls' = hungerCalls + 1
                   /\ deducted' = deducted + (hunger - r.hunger) + (saturation - r.saturation)
              ELSE UNCHANGED stamina
           /\ IF due /\ ~r.ok
              THEN IF shape = "largeTunnel"
                   THEN \* break: leaves the loop over the cells of the slice
                        /\ innerBreak' = "stamina"
                        /\ Goto("loop")
                        /\ UNCHANGED <<axis, stepSign, d, idx, outward, foundInSlice,
                                       broken, sliceStart, examined, brokenSlices>>
                   ELSE /\ Finally(loot, "stamina")
                        /\ UNCHANGED tunnel
              ELSE /\ Goto("break")
                   /\ UNCHANGED tunnel
    /\ UNCHANGED <<inputs, effects, flood, target, clock, cont, mismatchSeen>>

(***************************************************************************)
(* breakBlock(player, item, block, veinCtx)                                *)
(***************************************************************************)
BreakKindByItem(typeId, it) ==
    IF it.comp = "utilitycraft:hammer" THEN "dorios:hammerBlock"
    ELSE IF it.comp = "utilitycraft:block_loot" THEN "dorios:blockLoot"
    ELSE "loot"

\* what breakBlock does with a block: the script event it dispatches, or
\* "loot" for loot generation and the fill with air
BreakKind(typeId, it) ==
    IF HasTag(typeId, "dorios:machine") THEN "dorios:destroyMachine"
    ELSE IF HasTag(typeId, "dorios:generator") THEN "dorios:destroyGenerator"
    ELSE IF HasTag(typeId, "dorios:fluid") THEN "dorios:destroyTank"
    ELSE IF HasTag(typeId, "dorios:furnace") THEN "dorios:destroyFurnace"
    ELSE IF it.comp = "utilitycraft:hammer" THEN "dorios:hammerBlock"
    ELSE IF it.comp = "utilitycraft:block_loot" THEN "dorios:blockLoot"
    ELSE "loot"

RECURSIVE AmountOf(_, _)
AmountOf(drops, t) ==
    IF drops = << >> THEN 0
    ELSE (IF Head(drops).typeId = t THEN Head(drops).amount ELSE 0) + AmountOf(Tail(drops), t)

veinCtxNull(sh) == FALSE

\* if (veinCtx): every handler passes its ctx to breakBlock
veinCtx(sh) == TRUE

\* where a call of breakBlock can throw: nowhere, in the command or loot
\* table call it starts with, or in the fill command it ends with
Faults == {"none", "command", "fill"}

\* if (broken + 1 >= maxBlocks) return
CapReached(n) == n + 1 >= LargeMaxBlocks(maxVein)

(***************************************************************************)
(* The break of an eligible candidate: cont++, breakBlock, and what the    *)
(* handler does up to its await.                                           *)
(***************************************************************************)
Break ==
    /\ pc = "break"
    /\ UNCHANGED <<trail, server>>
    /\ cont' = cont + 1
    /\ IF curBlock = Undefined
       THEN \* a flood-fill whose first position did not resolve: no break and
            \* no await, the neighbours are pushed at once
            /\ toCheck' = toCheck \o Neighbours(cur)
            /\ inserted' = inserted + Len(dirs)
            /\ Goto("loop")
            /\ UNCHANGED <<visited, resolved, reprocessed, eligibleSet, effects, tunnel, clock>>
       ELSE \E fault \in Faults, drops \in LootOf(curBlock) :
              LET kind == BreakKind(curBlock, item)
                  gained == IF kind = "loot" /\ fault # "command" THEN drops ELSE << >>
                  lootNow == IF veinCtx(shape) THEN AddAll(loot, gained) ELSE loot
              IN  /\ fault = "fill" => kind = "loot"
                  /\ loot' = lootNow
                  /\ strays' = IF veinCtx(shape) THEN strays
                                ELSE strays \o [i \in 1..Len(gained) |-> <<gained[i], cur>>]
                  /\ added' = IF veinCtx(shape)
                               THEN [t \in ItemTypes |-> added[t] + AmountOf(gained, t)]
                               ELSE added
                  /\ signals' = IF kind # "loot" /\ fault = "none"
                                THEN Append(signals, <<kind, cur>>)
                                ELSE signals
                  /\ removed' = IF kind = "loot" /\ fault = "none"
                                THEN removed \cup {cur}
                                ELSE removed
                  /\ breaks' = IF fault = "none" THEN breaks + 1 ELSE breaks
                  /\ brokenSet' = IF fault = "none" THEN brokenSet \cup {cur} ELSE brokenSet
                  /\ breakTick' = IF fault = "none" THEN tick ELSE breakTick
                  /\ UNCHANGED tick
                  /\ UNCHANGED flood
                  /\ IF fault # "none"
                     THEN /\ Finally(lootNow, "fault")
                          /\ UNCHANGED tunnel
                     ELSE IF shape = "largeTunnel"
                     THEN /\ broken' = broken + 1
                          /\ foundInSlice' = TRUE
                          /\ brokenSlices' = brokenSlices \cup {d}
                          /\ UNCHANGED <<axis, stepSign, d, idx, outward, innerBreak,
                                         sliceStart, examined>>
                          /\ IF CapReached(broken + 1)
                             THEN Finally(lootNow, "cap")
                             ELSE Goto("wait")
                     ELSE /\ Goto("wait")
                          /\ brokenSlices' = IF shape \in TunnelShapes
                                             THEN brokenSlices \cup {d}
                                             ELSE brokenSlices
                          /\ UNCHANGED <<axis, stepSign, d, idx, outward, foundInSlice,
                                         innerBreak, broken, sliceStart, examined>>
    /\ UNCHANGED <<inputs, tool, stamina, target, mismatchSeen>>

(***************************************************************************)
(* await system.waitTicks(1) returns: the handler goes on to its next      *)
(* candidate.                                                              *)
(***************************************************************************)
SameTick(t) == t

\* await system.waitTicks(1): the tick in which the suspended run goes on
WaitTicks(t) == t + 1

Resume ==
    /\ pc = "wait"
    /\ UNCHANGED <<trail, server>>
    /\ Goto("loop")
    /\ tick' = WaitTicks(tick)
    /\ UNCHANGED breakTick
    /\ IF shape \in FloodShapes
       THEN /\ toCheck' = toCheck \o Neighbours(cur)
            /\ inserted' = inserted + Len(dirs)
            /\ UNCHANGED <<visited, resolved, reprocessed, eligibleSet, tunnel>>
       ELSE IF shape = "lineTunnel"
       THEN /\ d' = d + 1
            /\ UNCHANGED <<axis, stepSign, idx, outward, foundInSlice, innerBreak,
                           broken, sliceStart, examined, brokenSlices, flood>>
       ELSE /\ idx' = idx + 1
            /\ UNCHANGED <<axis, stepSign, d, outward, foundInSlice, innerBreak,
                           broken, sliceStart, examined, brokenSlices, flood>>
    /\ UNCHANGED <<inputs, tool, stamina, effects, target, cont, mismatchSeen>>

(***************************************************************************)
(* The player selects the other hotbar slot while the run is suspended.    *)
(***************************************************************************)
SwapTool ==
    /\ pc = "wait"
    /\ UNCHANGED <<trail, server>>
    /\ mainhand' = stash
    /\ stash' = mainhand
    /\ UNCHANGED <<inputs, item, sounds, damages, stamina, effects, flood, tunnel,
                   target, ending, clock, pc, cont, mismatchSeen>>

RunStep ==
    Start \/ FloodCheck \/ LargeCheck \/ SmallCheck \/ LineCheck \/ Govern \/ Break \/ Resume

Next == RunStep \/ SwapTool

Spec == Init /\ [][Next]_vars

\* the handler runs on when it can, and every one-tick wait is resumed
FairSpec == Spec /\ WF_vars(RunStep)

(***************************************************************************)
(* The script as a whole.  The script is single-threaded: the subscriber   *)
(* and every run execute synchronously up to their next                    *)
(* `await system.waitTicks(1)`.  A step of the script is the subscriber    *)
(* handling one event, with the run it starts taken up to its first await, *)
(* or one suspended run going on after its wait, up to its next await or   *)
(* its end.  The runs are runs of shapelessVein, the shape the settings of *)
(* both players select, with pickaxes on blocks without destruction tags.  *)
(***************************************************************************)
BlockAtStart(b, p) == IF p \in Lode \cup {Slab} THEN LodeAt(p) ELSE Air

\* dim.getBlock(pos).typeId in the shared world, whose chunks are all loaded
BlockAt(b, p) == IF p \in DOMAIN b THEN b[p] ELSE Air

\* the block types of the shared world and the drop lists their loot tables
\* yield in one stretch of the script
LodeTypes == {"minecraft:stone", "minecraft:bedrock", Air}
Rolls ==
    {f \in [LodeTypes -> UNION {LootOf(t) : t \in LodeTypes}] :
        \A t \in LodeTypes : f[t] \in LootOf(t)}

\* brokenBlock.replace("lit_", "") for the types that include 'redstone_ore'
Unlit(id) ==
    CASE id = "minecraft:lit_redstone_ore" -> "minecraft:redstone_ore"
      [] id = "minecraft:lit_deepslate_redstone_ore" -> "minecraft:deepslate_redstone_ore"
      [] OTHER -> id

\* what a synchronous stretch of a run works on: the run, the world, the
\* player of the run, and the observers
Scene(r, b, pl) ==
    [run |-> r, blocks |-> b, player |-> pl,
     spawns |-> spawns, removals |-> removals, yields |-> yields]

\* finally { dropVeinLoot(ctx) } of shapelessVein: the run of the scene ends
Leave(s, reason) ==
    LET stacks == DropVeinLoot(s.run.loot)
    IN  [s EXCEPT !.run.pc = "done", !.run.outcome = reason,
                  !.spawns = @ \o [i \in 1..Len(stacks) |->
                                     [run |-> s.run.id, stack |-> stacks[i],
                                      site |-> s.run.site]]]

\* the body of the if of shapelessVein for an eligible block: the
\* durability block, the hunger check, cont++, breakBlock and the await
Step(s, pos, targetBlock, fault, rolls) ==
    LET r == s.run
        pl == s.player
        wears == pl.gameMode = "survival" /\ r.item # NoItem /\ r.item.hasDur
        worn == IF wears THEN Damage(r.item) ELSE r.item
        pl1 == IF wears
               THEN [pl EXCEPT !.mainhand = WrittenBack(worn),
                               !.sounds = IF Lasts(worn) THEN @ ELSE @ + 1]
               ELSE pl
        due == HungerDue(r.cont)
        h == ReduceHunger(FALSE, pl1.hunger, pl1.saturation)
        pl2 == IF due
               THEN [pl1 EXCEPT !.hunger = h.hunger, !.saturation = h.saturation,
                                !.nausea = IF h.ok THEN @ ELSE @ + 1]
               ELSE pl1
        s2 == [s EXCEPT !.run.item = worn, !.player = pl2]
        kind == BreakKind(targetBlock, worn)
        thrown == IF fault = "fill" /\ kind # "loot" THEN "none" ELSE fault
        generated == kind = "loot" /\ thrown # "command"
        filled == kind = "loot" /\ thrown = "none"
        s3 == [s2 EXCEPT
                 !.run.cont = @ + 1,
                 !.run.cur = pos,
                 !.run.loot = IF generated THEN AddAll(@, rolls[targetBlock]) ELSE @,
                 !.yields = IF generated
                            THEN Append(@, [run |-> r.id, cell |-> pos,
                                            drops |-> rolls[targetBlock]])
                            ELSE @,
                 !.blocks = IF filled /\ pos \in DOMAIN s.blocks
                            THEN [@ EXCEPT ![pos] = Air] ELSE @,
                 !.removals = IF filled /\ targetBlock # Air
                              THEN Append(@, [run |-> r.id, cell |-> pos,
                                              type |-> targetBlock])
                              ELSE @]
    IN  IF due /\ ~h.ok THEN Leave(s2, "stamina")
        ELSE IF thrown # "none" THEN Leave(s3, "fault")
        ELSE [s3 EXCEPT !.run.pc = "wait"]

\* the while loop of shapelessVein from its condition up to the next await
\* or the end of the run.  Up to the await nothing the loop reads changes
\* but its frontier and its visited set, so it passes over the positions in
\* front of the first one it finds eligible: those visited before, and
\* those it visits now and finds not eligible.
Loop(s, fault, rolls) ==
    LET r == s.run
        toCheck0 == r.toCheck
        Unvisited(j) ==
            /\ toCheck0[j] \notin r.visited
            /\ \A i \in 1..(j - 1) : toCheck0[i] # toCheck0[j]
        Taken(j) ==
            /\ Unvisited(j)
            /\ \/ r.visited = {} /\ j = 1
               \/ BlockAt(s.blocks, toCheck0[j]) = r.brokenBlock
        taken == {j \in 1..Len(toCheck0) : Taken(j)}
        Passed(n) == r.visited \cup {toCheck0[i] : i \in 1..n}
    IN  IF ~(Len(toCheck0) > 0 /\ r.cont < r.maxVein)
        THEN Leave(s, IF Len(toCheck0) > 0 THEN "budget" ELSE "exhausted")
        ELSE IF r.item # NoItem /\ s.player.mainhand.typeId # r.item.typeId
        THEN Leave(s, "tool")
        ELSE IF taken = {}
        THEN Leave([s EXCEPT !.run.toCheck = << >>,
                             !.run.visited = Passed(Len(toCheck0))], "exhausted")
        ELSE LET j == CHOOSE j \in taken : \A k \in taken : j <= k
             IN  Step([s EXCEPT !.run.toCheck = SubSeq(toCheck0, j + 1, Len(toCheck0)),
                                !.run.visited = Passed(j)],
                      toCheck0[j], BlockAt(s.blocks, toCheck0[j]), fault, rolls)

\* the script goes on from the scene a stretch has left
Commit(s) ==
    /\ blocks' = s.blocks
    /\ players' = [players EXCEPT ![s.run.player] = s.player]
    /\ runs' = LET r == IF s.run.pc = "wait"
                        THEN [s.run EXCEPT !.due = WaitTicks(0)] ELSE s.run
               IN  IF r.id > Len(runs) THEN Append(runs, r) ELSE [runs EXCEPT ![r.id] = r]
    /\ spawns' = s.spawns
    /\ removals' = s.removals
    /\ yields' = s.yields

\* the subscriber returns without a call of a handler
Returns(b, pls) ==
    /\ blocks' = b
    /\ players' = pls
    /\ UNCHANGED <<runs, spawns, removals, yields>>

\* veinHandler.shapelessVein(player, block, brokenBlock, maxVein, item) up
\* to its first await
shapelessVein(p, pl, b, block, typeId, limit, it, fault, rolls) ==
    LET ctx == createVeinContext(block)
        r == [id |-> Len(runs) + 1, player |-> p, brokenBlock |-> typeId,
              maxVein |-> limit, item |-> it, loot |-> ctx.loot,
              site |-> <<ctx.dimension, ctx.dropPos>>,
              visited |-> {}, toCheck |-> <<block.location>>, cont |-> 0,
              cur |-> block.location, pc |-> "run", outcome |-> "none", due |-> 0]
    IN  Commit(Loop(Scene(r, b, pl), fault, rolls))

(***************************************************************************)
(* world.afterEvents.playerBreakBlock: a player has broken the block at a  *)
(* cell, and the subscriber runs.                                          *)
(***************************************************************************)
PlayerBreakBlock ==
    /\ events < MaxEvents
    /\ events' = events + 1
    /\ UNCHANGED handler
    /\ \E p \in Players, cell \in DOMAIN blocks, isSneaking \in BOOLEAN,
          diggable \in BOOLEAN, fault \in Faults, rolls \in Rolls :
         /\ cell \in Within(p)
         /\ blocks[cell] # Air
         /\ LET player == players[p]
                brokenType == blocks[cell]
                after == [blocks EXCEPT ![cell] = Air]
                block == [dimension |-> "minecraft:overworld", location |-> cell]
                isEnabled == IF player.veinEnabled = Unset
                             THEN TRUE ELSE player.veinEnabled[1]
                veinShape == IF player.veinShape = Unset
                             THEN "shapelessVein" ELSE player.veinShape[1]
                veinLimit == IF player.veinLimit = Unset THEN 64 ELSE player.veinLimit[1]
                veinList == IF player.veinList = Unset THEN list ELSE player.veinList[1]
                defaults == [player EXCEPT
                               !.veinEnabled = Set(isEnabled),
                               !.veinShape = Set(veinShape),
                               !.veinLimit = Set(veinLimit),
                               !.veinList = IF @ = Unset THEN Set(list) ELSE @]
                saved == [players EXCEPT ![p] = defaults]
            IN  IF ~isSneaking \/ player.gameMode = "creative" \/ player.isAdding
                THEN Returns(after, players)
                ELSE IF brokenType \in blacklist
                THEN Returns(after, [saved EXCEPT ![p].veinList =
                                                    Set(veinList \ {brokenType})])
                ELSE IF ~isEnabled \/ ~diggable \/ player.hunger = 0
                THEN Returns(after, saved)
                ELSE IF \/ veinShape \in {"largeTunnel", "smallTunnel"}
                        \/ Unlit(brokenType) \in veinList
                THEN shapelessVein(p, defaults, after, block, Unlit(brokenType),
                                   veinLimit, player.mainhand, fault, rolls)
                ELSE Returns(after, saved)

(***************************************************************************)
(* A suspended run whose tick has come goes on: the neighbours of the      *)
(* block it broke enter its frontier, and its loop runs to the next await. *)
(***************************************************************************)
RunResumed ==
    /\ UNCHANGED <<handler, events>>
    /\ \E i \in 1..Len(runs), fault \in Faults, rolls \in Rolls :
         /\ runs[i].pc = "wait"
         /\ runs[i].due = 0
         /\ LET r == [runs[i] EXCEPT !.toCheck = @ \o Neighbours(runs[i].cur)]
            IN  Commit(Loop(Scene(r, blocks, players[r.player]), fault, rolls))

(***************************************************************************)
(* The server goes to its next tick, once every run that was due in this   *)
(* one has gone on.                                                        *)
(***************************************************************************)
TickPasses ==
    /\ \E i \in 1..Len(runs) : runs[i].pc = "wait"
    /\ \A i \in 1..Len(runs) : runs[i].pc = "wait" => runs[i].due > 0
    /\ runs' = [i \in 1..Len(runs) |->
                  IF runs[i].pc = "wait" THEN [runs[i] EXCEPT !.due = @ - 1] ELSE runs[i]]
    /\ UNCHANGED <<handler, blocks, players, events, spawns, removals, yields>>

\* the handler variables of the model stand still while the script is
\* looked at as a whole
Idle == CHOOSE c \in VerticalCalls : TRUE

ServerInit == Called(Idle) /\ Loaded

ServerNext == PlayerBreakBlock \/ RunResumed \/ TickPasses

ServerSpec == ServerInit /\ [][ServerNext]_vars

(***************************************************************************)
(* Definitions the properties are stated with.                             *)
(***************************************************************************)
\* the number of items of a type among the stacks dropVeinLoot spawned
RECURSIVE SpawnedTotal(_, _)
SpawnedTotal(stacks, t) ==
    IF stacks = << >> THEN 0
    ELSE (IF Head(stacks).typeId = t THEN Head(stacks).amount ELSE 0)
            + SpawnedTotal(Tail(stacks), t)

\* the required tool is set and the main hand holds another type, or nothing
MainhandDiverged == item # NoItem /\ mainhand.typeId # item.typeId

\* the largest index of a slice of a largeTunnel run
LastSlice == maxVein \div 4

\* C1: a run emits its loot exactly once, when it ends, on every exit path
\* (candidates exhausted, budget, stamina abort, tool mismatch, fault), and
\* breaks no block after the emission.
LootEmittedOnce ==
    /\ [](emits <= 1 /\ (pc = "done" <=> emits = 1))
    /\ [][emits = 1 => (breaks' = breaks /\ emits' = 1 /\ spawned' = spawned)]_vars

\* C1 witness: a run that ended by a fault of block removal after breaking
\* blocks, with its loot emitted.
LootEmittedAfterFault ==
    pc = "done" /\ outcome = "fault" /\ breaks > 0 /\ emits = 1 /\ spawned # << >>

\* C2: at the end of a run the stacks spawned for every item type add up to
\* the quantity added through addLoot, and every stack holds 1..64 items;
\* nothing is spawned before.
StacksMatchAdded ==
    IF pc = "done"
    THEN /\ \A t \in ItemTypes : SpawnedTotal(spawned, t) = added[t]
         /\ \A i \in 1..Len(spawned) :
               spawned[i].typeId \in ItemTypes /\ spawned[i].amount \in 1..64
    ELSE spawned = << >>

\* C2 witness: a run ended with more than one stack of an item type.
StackWasSplit ==
    /\ pc = "done"
    /\ \E t \in ItemTypes : added[t] > 64
    /\ \E i \in 1..Len(spawned) : spawned[i].amount = 64

\* C3: the number of blocks a run has broken never exceeds maxVein.
BrokenWithinBudget == breaks <= maxVein

\* C4 as stated: while the main hand holds another type than the required
\* tool, no step of the run breaks a block.
NoBreakOnceDiverged == [][MainhandDiverged => breaks' = breaks]_vars

\* C4 amended: once a tool check of the run has found the main hand to hold
\* another type, the run breaks no further block; and a block is broken while
\* the main hand differs from the required tool only in the step whose own
\* damage has just destroyed the tool.
NoBreakAfterMismatchSeen ==
    [][/\ mismatchSeen => breaks' = breaks
       /\ (MainhandDiverged /\ breaks' # breaks) =>
             (mainhand = NoItem /\ item.hasDur /\ item.dur <= 0 /\ sounds > 0)]_vars

\* C4 witness: the player selected another slot during a wait and the run
\* ended on the tool check, having broken blocks before.
EndedOnToolSwap ==
    pc = "done" /\ outcome = "tool" /\ mainhand = Torch /\ breaks > 0 /\ mismatchSeen

\* C5: with no hunger, no saturation and the opt-out off, a run breaks at
\* most 10 blocks and receives the nausea effect at most once, exactly once
\* when it ended on the stamina check.
StaminaAbortOnce ==
    (~noConsumeSaturation /\ hunger = 0 /\ saturation = 0 /\ deducted = 0) =>
        /\ breaks <= 10
        /\ cont = 10 => pc # "break"
        /\ nausea <= 1
        /\ (pc = "done" /\ outcome = "stamina") => nausea = 1

\* C6: in a flood-fill no position is resolved twice or broken twice, and
\* the visited set is never larger than the number of positions inserted
\* into the frontier, the origin counted.
VisitedOnce ==
    shape \in FloodShapes =>
        /\ ~reprocessed
        /\ breaks = Cardinality(brokenSet)
        /\ Cardinality(visited) <= inserted

\* C6 witness: a flood-fill is about to take from the frontier a position it
\* has visited already, after breaking blocks.
DuplicateInFrontier ==
    /\ shape \in FloodShapes /\ pc = "loop" /\ breaks >= 2
    /\ toCheck # << >> /\ Head(toCheck) \in visited

\* getBlock of the tunnels on the world as it was when the run started
InitialGetBlock(p) ==
    IF Unloaded(world, p) THEN Undefined
    ELSE LET b == InitialType(world, brokenBlock, p)
         IN  IF b = Air \/ b \in blacklist \/ b # brokenBlock THEN Undefined ELSE b

\* the cross-section through the origin held no eligible block at the start
OriginSliceEmpty ==
    \A dy \in -1..1, dz \in -1..1 :
        InitialGetBlock(SliceCell(axis, Origin, <<dy, dz>>)) = Undefined

\* C7: in a largeTunnel run, when the slice through the origin holds no
\* eligible block the slices are examined from slice 1 on and no cell of
\* slice 0 is considered (otherwise from slice 0 on), and a slice is
\* examined only when every slice processed before it yielded a broken block.
SlicesInOrder ==
    (shape = "largeTunnel" /\ pc # "start") =>
        LET first == IF OriginSliceEmpty THEN 1 ELSE 0
        IN  \A e \in examined :
              /\ e >= first
              /\ \A f \in first..(e - 1) : f \in brokenSlices

\* C7 witness: a largeTunnel run that skipped the empty origin slice, broke
\* blocks in slice 1, found nothing in slice 2 and ended there, although
\* slice 3 was within its length and still holds an eligible block.
StoppedAtEmptySlice ==
    /\ shape = "largeTunnel" /\ pc = "done" /\ OriginSliceEmpty
    /\ 1 \in brokenSlices /\ 2 \in examined /\ 2 \notin brokenSlices
    /\ 3 <= LastSlice /\ 3 \notin examined
    /\ \E dy \in -1..1, dz \in -1..1 :
          getBlock(SliceCell(axis, Forward(axis, stepSign, 3), <<dy, dz>>)) # Undefined

\* C8: the resource step of an eligible candidate damages the tool by one
\* unit when the player is in survival mode and the tool has durability; a
\* tool the damage exhausts is taken out of the main hand with the break
\* sound, any other is written back without a sound.  Otherwise the tool,
\* the main hand and the sounds are left alone.
DurabilityStep ==
    [][pc = "govern" =>
        IF gameMode = "survival" /\ item # NoItem /\ item.hasDur
        THEN /\ item' = [item EXCEPT !.dur = item.dur - 1]
             /\ damages' = damages + 1
             /\ IF item.dur - 1 <= 0
                THEN mainhand' = NoItem /\ sounds' = sounds + 1
                ELSE mainhand' = item' /\ sounds' = sounds
        ELSE item' = item /\ mainhand' = mainhand /\ sounds' = sounds
                /\ damages' = damages]_vars

\* C8 witness: the damage of a step has destroyed the tool: the main hand
\* is empty, the sound was played, the block of the step is about to break.
ToolJustDestroyed ==
    /\ pc = "break" /\ gameMode = "survival" /\ item # NoItem
    /\ item.dur = 0 /\ mainhand = NoItem /\ sounds = 1

\* the 26 neighbours of a position
Around(p) ==
    {<<p[1] + a, p[2] + b, p[3] + c>> : a \in -1..1, b \in -1..1, c \in -1..1} \ {p}

\* the predicate of the flood-fill of the run on a block type
FloodPredicate(t) ==
    CASE shape = "shapelessVein" -> t = brokenBlock
      [] shape = "treeCapitator" ->
            \E suffix \in {"_log", "_leaves", "_stem", "_wart_block"} : EndsWith(t, suffix)
      [] shape = "veinMiner" -> EndsWith(t, "_ore") \/ t = "minecraft:ancient_debris"
      [] OTHER -> FALSE

\* a block the predicate accepts, before the run / one that also resolves
EligibleAt(p) == InBox(p) /\ FloodPredicate(InitialType(world, brokenBlock, p))
ResolvableEligibleAt(p) == EligibleAt(p) /\ ~Unloaded(world, p)

\* the 26-connected component of the origin among the accepted positions
RECURSIVE Grown(_, _, _)
Grown(S, frontier, resolvableOnly) ==
    LET more == {p \in UNION {Around(q) : q \in frontier} :
                    /\ p \notin S
                    /\ IF resolvableOnly THEN ResolvableEligibleAt(p) ELSE EligibleAt(p)}
    IN  IF more = {} THEN S ELSE Grown(S \cup more, more, resolvableOnly)

Component == Grown({Origin}, {Origin}, FALSE)
ResolvableComponent == Grown({Origin}, {Origin}, TRUE)

\* the blocks of a type among those the run broke
BrokenOfType(t) == {p \in brokenSet : InitialType(world, brokenBlock, p) = t}

Terminates == <>(pc = "done")

\* C10 witness: a run on a vein larger than its budget has ended.
EndedInLargeVein ==
    pc = "done" /\ world = "solid" /\ outcome = "budget" /\ breaks = MaxLimit

\* C11: a run is suspended only by the one-tick wait that follows a block
\* break: it enters a wait only in the step that broke a block, the tick
\* changes only when a wait is resumed, and then by exactly one, and a block
\* is broken only one tick after the block before it, so that a run never
\* breaks two blocks in one tick and the checks and the break of one
\* candidate fall into one tick.
SuspendsOnceAfterBreak ==
    [][/\ (pc # "wait" /\ pc' = "wait") => (pc = "break" /\ breaks' = breaks + 1)
       /\ tick' # tick => (pc = "wait" /\ pc' = "loop" /\ tick' = tick + 1)
       /\ pc \in {"loop", "govern", "break"} => tick' = tick
       /\ breaks' # breaks =>
             /\ breaks' = breaks + 1
             /\ breakTick' = tick
             /\ breakTick = -1 \/ tick = breakTick + 1
             /\ pc' \in {"wait", "done"}]_vars

\* C11 witness: a run suspended after its third break, two ticks after its
\* first.
SuspendedAfterThirdBreak ==
    pc = "wait" /\ breaks = 3 /\ tick = 2 /\ breakTick = 2

\* the run is about to take a candidate position and resolve its block
ExaminesCandidate ==
    /\ pc = "loop"
    /\ ~ToolMismatch
    /\ CASE shape \in FloodShapes ->
                Len(toCheck) > 0 /\ cont < maxVein /\ Head(toCheck) \notin visited
          [] shape = "largeTunnel" ->
                d <= maxVein \div 4 /\ idx <= 9 /\ innerBreak = "none"
          [] shape = "smallTunnel" -> d < maxVein \div 2 /\ idx <= 2
          [] shape = "lineTunnel" -> d < maxVein

\* the candidate position it takes
CandidatePos ==
    CASE shape \in FloodShapes -> Head(toCheck)
      [] shape = "largeTunnel" ->
            SliceCell(axis, Forward(axis, stepSign, d), spiralOffsets(outward)[idx])
      [] shape = "smallTunnel" -> Plus(Forward(axis, stepSign, d), offsets[idx])
      [] shape = "lineTunnel" -> Forward(axis, stepSign, d)

\* the step leaves the counters, the tool, the stamina and the frontier as
\* they are, apart from taking the candidate off, and the run goes on
CandidateSkipped ==
    /\ pc' = "loop"
    /\ cont' = cont /\ breaks' = breaks
    /\ item' = item /\ mainhand' = mainhand /\ damages' = damages /\ sounds' = sounds
    /\ hunger' = hunger /\ saturation' = saturation /\ nausea' = nausea
    /\ hungerCalls' = hungerCalls
    /\ inserted' = inserted
    /\ shape \in FloodShapes => toCheck' = Tail(toCheck)

\* the first position a flood-fill takes from its frontier
FirstOfFlood == shape \in FloodShapes /\ visited = {}

BrokenWereEligible ==
    [][/\ (ExaminesCandidate /\ FirstOfFlood) => (pc' = "govern" /\ cur' = Origin)
       /\ (shape \in FloodShapes /\ breaks' # breaks /\ cur # Origin) =>
             /\ FloodPredicate(TypeAt(cur))
             /\ \E q \in eligibleSet \ {cur} : cur \in Around(q)]_vars

\* C13 witness: a treeCapitator started on an ore broke the ore, the log and
\* the leaves next to it, and left the ore beside them.
TreeFromOre ==
    /\ shape = "treeCapitator" /\ world = "mixed" /\ pc = "done"
    /\ ~FloodPredicate(InitialType(world, brokenBlock, Origin))
    /\ brokenSet = {Origin, <<1, 1, 0>>, <<2, 1, 0>>}
    /\ TypeAt(<<1, 0, 0>>) = "minecraft:lapis_ore"

StepsTaken ==
    breaks + (IF shape \in FloodShapes /\ Unloaded(world, Origin) /\ cont > 0
              THEN 1 ELSE 0)
           + (IF outcome = "fault" THEN 1 ELSE 0)

SaturationBeforeHunger ==
    /\ [](hunger >= 0 /\ saturation >= 0)
    /\ [][IF hungerCalls' # hungerCalls /\ ~noConsumeSaturation
          THEN IF saturation >= 1
               THEN saturation' = saturation - 1 /\ hunger' = hunger /\ nausea' = nausea
               ELSE IF hunger >= 1
               THEN hunger' = hunger - 1 /\ saturation' = saturation /\ nausea' = nausea
               ELSE hunger' = hunger /\ saturation' = saturation /\ nausea' = nausea + 1
          ELSE hungerCalls' = hungerCalls =>
                  (hunger' = hunger /\ saturation' = saturation /\ nausea' = nausea)]_vars

\* C15 witness: two calls in one run: the first took the last unit of a
\* reserve, the second found both reserves empty and failed.
DeductedThenFailed ==
    /\ ~noConsumeSaturation /\ hungerCalls = 2 /\ deducted = 1 /\ nausea = 1
    /\ hunger = 0 /\ saturation = 0

\* C16: while dorios:noConsumeSaturation is set, no step changes the hunger
\* or the saturation, applies nausea, or ends or cuts a run for stamina.
OptOutKeepsStamina ==
    /\ [](noConsumeSaturation =>
            (nausea = 0 /\ outcome # "stamina" /\ innerBreak # "stamina" /\ deducted = 0))
    /\ [][noConsumeSaturation =>
            (hunger' = hunger /\ saturation' = saturation /\ nausea' = nausea)]_vars

\* C16 witness: with the opt-out set and both reserves empty, a run went
\* through its stamina check and broke an 11th block.
BrokeOnWithOptOut ==
    /\ noConsumeSaturation /\ hunger = 0 /\ saturation = 0
    /\ hungerCalls >= 1 /\ breaks >= 11

\* C17: no run resolves and tests a candidate position a second time.
NoRetries == ~reprocessed

\* the largest absolute value among the components of an aim vector
LargestComponent(v) ==
    CHOOSE m \in {Abs(v[1]), Abs(v[2]), Abs(v[3])} :
        \A n \in {Abs(v[1]), Abs(v[2]), Abs(v[3])} : m >= n

\* the axis of the largest component, x before z before y, and the
\* direction of that component, positive for 0
AimAxis(v) ==
    IF Abs(v[1]) = LargestComponent(v) THEN "x"
    ELSE IF Abs(v[3]) = LargestComponent(v) THEN "z"
    ELSE "y"

AimSign(v) ==
    LET c == CASE AimAxis(v) = "x" -> v[1]
               [] AimAxis(v) = "y" -> v[2]
               [] AimAxis(v) = "z" -> v[3]
    IN  IF c < 0 THEN -1 ELSE 1

\* the aim vectors the three selections are compared on
AimVectors == {<<a, b, c>> : a \in -AimRange..AimRange, b \in -AimRange..AimRange,
                             c \in -AimRange..AimRange}

\* C18: the three tunnel handlers step along the axis of the largest
\* absolute aim component, x before z before y on ties, in the direction of
\* its sign (positive for 0), and choose alike for the same vector.
AxisOfLargestComponent ==
    /\ (shape \in TunnelShapes /\ pc # "start") =>
          (axis = AimAxis(view) /\ stepSign = AimSign(view))
    /\ pc = "start" =>
          \A v \in AimVectors \cup Views :
              /\ LargeAxis(v) = [axis |-> AimAxis(v), stepSign |-> AimSign(v)]
              /\ SmallAxis(v) = LargeAxis(v)
              /\ LineAxis(v) = LargeAxis(v)

\* C18 witness: with the y and z components tied and negative, a lineTunnel
\* went along z in the negative direction.
TunnelAlongNegativeZ ==
    /\ shape = "lineTunnel" /\ view = <<2, -6, -6>> /\ axis = "z" /\ stepSign = -1
    /\ <<0, 0, -1>> \in brokenSet

\* the offsets a largeTunnel took in slice e, in the order it took them
SliceTrail(e) ==
    LET of == SelectSeq(trail, LAMBDA t : t[1] = e)
    IN  [i \in 1..Len(of) |-> of[i][2]]

\* a sequence is the centre of the 3x3 cross-section followed by its 8 ring
\* cells, each next to the one before it, all turning the same way
IsRingOrder(s) ==
    /\ Len(s) = 9
    /\ s[1] = <<0, 0>>
    /\ {s[i] : i \in 2..9} = {<<a, b>> : a \in -1..1, b \in -1..1} \ {<<0, 0>>}
    /\ \A i \in 2..8 :
          /\ Abs(s[i][1] - s[i + 1][1]) + Abs(s[i][2] - s[i + 1][2]) = 1
          /\ s[i][1] * s[i + 1][2] - s[i][2] * s[i + 1][1] >= 0

\* the order of slice e: outward for the first slice of the run, and from
\* then on the reverse of the slice before
SliceOrder(e) ==
    LET out == spiralOffsets(TRUE)
    IN  IF (e - sliceStart) % 2 = 0 THEN out ELSE [i \in 1..9 |-> out[10 - i]]

\* the cells taken in slice e are the first cells of its order
InSliceOrder(e) ==
    /\ IsRingOrder(spiralOffsets(TRUE))
    /\ Len(SliceTrail(e)) <= 9
    /\ \A i \in 1..Len(SliceTrail(e)) : SliceTrail(e)[i] = SliceOrder(e)[i]

\* C19 as stated: every slice of a largeTunnel that the run has left took
\* each of its 9 cells once, the first slice centre first and then round
\* the ring, each later slice in the reverse order of the slice before.
SlicesSpiralComplete ==
    shape = "largeTunnel" =>
        \A e \in examined :
            /\ InSliceOrder(e)
            /\ (e < d \/ pc = "done") => Len(SliceTrail(e)) = 9

\* C19 amended: every slice takes its cells in that order, each at most
\* once; it takes all 9 when its loop was not left early, that is when no
\* tool check failed and no stamina check failed in the run and the run
\* went on to a later slice or ended after the last cell of the slice.
SlicesSpiralUnlessCut ==
    shape = "largeTunnel" =>
        \A e \in examined :
            /\ InSliceOrder(e)
            /\ (/\ nausea = 0 /\ ~mismatchSeen
                /\ \/ \E f \in examined : f > e
                   \/ pc = "done" /\ outcome = "exhausted")
                  => Len(SliceTrail(e)) = 9

\* C19 witness: a run took slice 0 outward and slice 1 inward, centre last,
\* both completely, and started slice 2 at the centre again.
ThirdSliceOutwardAgain ==
    /\ shape = "largeTunnel" /\ sliceStart = 0
    /\ Len(SliceTrail(0)) = 9 /\ Len(SliceTrail(1)) = 9
    /\ SliceTrail(0)[1] = <<0, 0>> /\ SliceTrail(1)[9] = <<0, 0>>
    /\ SliceTrail(1)[1] = SliceTrail(0)[9]
    /\ Len(SliceTrail(2)) >= 2 /\ SliceTrail(2)[1] = <<0, 0>>

\* a block type carries one of the four destruction tags
Tagged(t) ==
    \E tag \in {"dorios:machine", "dorios:generator", "dorios:fluid", "dorios:furnace"} :
        HasTag(t, tag)

\* the signal of the first tag a block type carries, in the order machine,
\* generator, fluid, furnace
DestructionSignal(t) ==
    CASE HasTag(t, "dorios:machine") -> "dorios:destroyMachine"
      [] ~HasTag(t, "dorios:machine") /\ HasTag(t, "dorios:generator") ->
            "dorios:destroyGenerator"
      [] /\ ~HasTag(t, "dorios:machine") /\ ~HasTag(t, "dorios:generator")
         /\ HasTag(t, "dorios:fluid") -> "dorios:destroyTank"
      [] OTHER -> "dorios:destroyFurnace"

\* C20: breakBlock on a block with a destruction tag dispatches the one
\* signal of its first tag for the position and does nothing else: no loot
\* is added to the context, the block is not replaced with air, and no
\* signal of the tool is dispatched; when the dispatch throws, nothing is
\* done at all.
TaggedOnlySignalled ==
    [][(pc = "break" /\ curBlock # Undefined /\ Tagged(curBlock)) =>
          /\ loot' = loot /\ added' = added /\ removed' = removed
          /\ cur \notin removed
          /\ IF breaks' = breaks + 1
             THEN signals' = Append(signals, <<DestructionSignal(curBlock), cur>>)
             ELSE signals' = signals /\ breaks' = breaks]_vars

\* C20 witness: a flood-fill with a hammer over blocks tagged generator and
\* furnace: after the hammer signal for the origin, four generator signals
\* and no others, no block replaced with air, no loot.
GeneratorsSignalled ==
    /\ brokenBlock = "utilitycraft:furnator" /\ shape = "shapelessVein"
    /\ item.comp = "utilitycraft:hammer" /\ damages = 5
    /\ pc = "done" /\ outcome = "budget" /\ Len(signals) = 5
    /\ signals[1] = <<"dorios:hammerBlock", Origin>>
    /\ \A i \in 2..5 : signals[i][1] = "dorios:destroyGenerator"
    /\ {signals[i][2] : i \in 2..5} = {<<1, 1, 0>>, <<2, 0, 1>>, <<3, 1, 1>>, <<4, 1, 0>>}
    /\ removed = {} /\ loot = << >> /\ spawned = << >>

\* the place of the block the handler was called with
OriginSite == <<OriginBlock.dimension, OriginBlock.location>>

\* C21: while a run is in progress nothing is spawned, neither by breakBlock
\* at the place of a block nor by dropVeinLoot: the drops generated for a
\* block go into ctx.loot only, which holds per item type what was added.
\* The stacks are spawned in the one step that ends the run, all of them at
\* the location and in the dimension of the origin block, and they add up to
\* ctx.loot; after it the run breaks and spawns nothing.
SpawnedOnlyAtEnd ==
    /\ [](strays = << >>)
    /\ [](\A t \in ItemTypes : AmountOf(loot, t) = added[t])
    /\ [](pc # "done" => (spawned = << >> /\ dropSites = {} /\ emits = 0))
    /\ [](pc = "done" =>
            /\ emits = 1
            /\ dropSites \subseteq {OriginSite}
            /\ (spawned # << >>) => (dropSites = {OriginSite})
            /\ \A t \in ItemTypes : SpawnedTotal(spawned, t) = AmountOf(loot, t))
    /\ [][(spawned' # spawned \/ dropSites' # dropSites) =>
            (pc # "done" /\ pc' = "done" /\ spawned = << >>)]_vars
    /\ [][pc = "done" =>
            (breaks' = breaks /\ removed' = removed /\ loot' = loot)]_vars

\* C21 witness: a treeCapitator broke the ore it was started on, a log and
\* the leaves beside it, the leaves last; the stacks of four item types were
\* spawned at the origin after the run ended.
BatchSpawnedAtOrigin ==
    /\ shape = "treeCapitator" /\ world = "mixed" /\ pc = "done"
    /\ brokenSet = {Origin, <<1, 1, 0>>, <<2, 1, 0>>} /\ cur = <<2, 1, 0>>
    /\ Len(spawned) = 4 /\ dropSites = {OriginSite} /\ emits = 1

\* the runs of a player that are suspended in their one-tick wait
ActiveRuns(p) == {i \in 1..Len(runs) : runs[i].player = p /\ runs[i].pc = "wait"}

\* C22: at every moment a player has at most one active run: the subscriber
\* starts no run for a player who has a run suspended between two ticks.
OneRunPerPlayer == \A p \in Players : Cardinality(ActiveRuns(p)) <= 1

\* the items of a type among the drop lists generated by the breakBlock
\* calls of the runs R
RECURSIVE YieldTotal(_, _, _)
YieldTotal(ys, R, t) ==
    IF ys = << >> THEN 0
    ELSE (IF Head(ys).run \in R THEN AmountOf(Head(ys).drops, t) ELSE 0)
            + YieldTotal(Tail(ys), R, t)

\* the drop lists generated for a cell by a run
YieldsFor(i, cell) == {k \in 1..Len(yields) : yields[k].run = i /\ yields[k].cell = cell}

\* the items of a type among the drops of the blocks the runs R removed
RECURSIVE RemovedTotal(_, _, _)
RemovedTotal(rs, R, t) ==
    IF rs = << >> THEN 0
    ELSE (IF Head(rs).run \in R
          THEN YieldTotal(yields, {Head(rs).run}, t)
                  - YieldTotal(SelectSeq(yields, LAMBDA y : y.cell # Head(rs).cell),
                               {Head(rs).run}, t)
          ELSE 0)
            + RemovedTotal(Tail(rs), R, t)

\* the items of a type among the stacks the runs R spawned
RECURSIVE SpawnsTotal(_, _, _)
SpawnsTotal(sp, R, t) ==
    IF sp = << >> THEN 0
    ELSE (IF Head(sp).run \in R /\ Head(sp).stack.typeId = t
          THEN Head(sp).stack.amount ELSE 0)
            + SpawnsTotal(Tail(sp), R, t)

AllRuns == 1..Len(runs)
AllDone == \A i \in AllRuns : runs[i].pc = "done"

\* no block is removed twice
RemovedOnce ==
    \A a, b \in 1..Len(removals) : a # b => removals[a].cell # removals[b].cell

Unfilled(i) ==
    {k \in 1..Len(yields) :
        /\ yields[k].run = i
        /\ \A a \in 1..Len(removals) :
              ~(removals[a].run = i /\ removals[a].cell = yields[k].cell)
        /\ yields[k].drops # << >>}

ToolWears == gameMode = "survival" /\ item # NoItem /\ item.hasDur

\* 1 between the durability block of a step and its breakBlock call
InStep == IF pc = "break" THEN 1 ELSE 0

\* C24 as stated: the tool is damaged only on steps that go on to break a
\* block: the damage applications are as many as the blocks broken so far,
\* one more between the damage and the break of a step, and as many at the
\* end of the run, a stamina abort included.  Stated for positions that
\* resolve and block removals that do not throw.
DamagedOnlyToBreak ==
    (ToolWears /\ world # "unloaded" /\ outcome # "fault") =>
        /\ damages = breaks + InStep
        /\ pc = "done" => damages = breaks

\* C24 amended: every eligible step damages the tool once, before its
\* stamina check: the damage applications are the steps counted by cont,
\* the steps in which the stamina check failed (each of which applied the
\* nausea effect and broke nothing), and the step in progress.  With every
\* position resolved and no block removal thrown, cont is the number of
\* blocks broken, so the two counts are equal at the end of a run exactly
\* when no stamina check failed; only largeTunnel fails more than one.
\* Out of survival mode and without a durability component nothing is
\* damaged.
DamagedOncePerEligibleStep ==
    /\ ToolWears => damages = cont + nausea + InStep
    /\ ~ToolWears => damages = 0
    /\ (ToolWears /\ world # "unloaded" /\ outcome # "fault") =>
          /\ damages = breaks + nausea + InStep
          /\ pc = "done" => (damages = breaks <=> outcome # "stamina" /\ nausea = 0)
    /\ shape # "largeTunnel" => (nausea <= 1 /\ (nausea = 1 <=> outcome = "stamina"))

\* C24 witness: a run with a pickaxe in survival mode ended by a stamina
\* abort after ten blocks: the eleventh step damaged the tool and broke
\* nothing.
DamagedThenAborted ==
    /\ ToolWears /\ shape = "shapelessVein" /\ world = "solid"
    /\ pc = "done" /\ outcome = "stamina"
    /\ breaks = 10 /\ cont = 10 /\ damages = 11 /\ nausea = 1

\* the stacks spawned at the end of a run hold what its blocks added
LootHandedOver ==
    \A t \in ItemTypes : SpawnedTotal(spawned, t) = added[t] /\ AmountOf(loot, t) = added[t]

=============================================================================
